---- MODULE Spec2Model ----
(***************************************************************************)
(* Model of the pin controller of the BMC daemon                           *)
(* (src/hal/pin_controller.rs).  The controller owns five GPIO line groups *)
(* and the USB port-power file; each public operation is modelled write by *)
(* write, every write may fail with an I/O error, and a failed `?` returns *)
(* at once.  One call is in flight at a time (callers serialize).          *)
(***************************************************************************)
EXTENDS Integers, Sequences, FiniteSets, TLC

VARIABLES
    usb_vbus,    \* 4-line group, held as the 4-bit word last written
    usb_mux,     \* 4-line group, held as the 4-bit word last written
    usb_switch,  \* 1-line group
    rpi_boot,    \* array of four 1-line groups, index 0..3
    rtl_reset,   \* 1-line group, logical value (the line is active-low)
    port_power,  \* content of USB_PORT_POWER
    pc,          \* position of the call in flight
    call,        \* the call in flight and its arguments
    updates,     \* what is left of the bit_iterator in set_usb_boot
    result,      \* "none" while running, then "ok", "err" or "cancelled"
    log,         \* the writes and the delay of the call in flight, in order
    pre,         \* the lines and the file as they were when the call started
    prev         \* the last returned call, when it was a successful select_usb,
                 \* and whether the last select_usb and set_usb_route returned Ok
VARIABLES
    chip1_lines, \* the names load_lines finds on chip1
    controller,  \* the line groups of the PinController that new returned
    other        \* a select_usb call of a second caller: its pc, arguments,
                 \* bit_iterator, result and writes

lines == <<usb_vbus, usb_mux, usb_switch, rpi_boot, rtl_reset, port_power>>
ctl   == <<pc, call, updates, result, log, pre, prev>>
ctor  == <<chip1_lines, controller>>
vars  == <<usb_vbus, usb_mux, usb_switch, rpi_boot, rtl_reset, port_power,
           pc, call, updates, result, log, pre, prev,
           chip1_lines, controller, other>>

----------------------------------------------------------------------------
(* Types of the arguments *)

NodeId   == {"Node1", "Node2", "Node3", "Node4"}
UsbMode  == {"Host", "Device", "Flash"}
UsbRoute == {"UsbA", "Bmc"}

(* number of lines of the per-node groups *)
NodeCount == 4

Word == 0 .. (2^NodeCount - 1)

(* the values of nodes_state and nodes_mask a direct set_usb_boot is called with *)
BootStates == Word
BootMasks  == Word

(* a sample of them: no line, some lines, every line *)
SomeBootStates == {0, 6, 15}    \* 0b0000, 0b0110, 0b1111
SomeBootMasks  == {0, 5, 15}    \* 0b0000, 0b0101, 0b1111

Bit(x, i) == (x \div (2^i)) % 2

(* bitwise complement of a 4-bit word *)
Not4(x) == (2^NodeCount - 1) - (x % (2^NodeCount))

(* Lines::set_values on a group of n lines: bit i of the value drives line i *)
set_values(n, v) == v % (2^n)

NodeIndex(node) ==
    CASE node = "Node1" -> 0
      [] node = "Node2" -> 1
      [] node = "Node3" -> 2
      [] node = "Node4" -> 3

(* NodeId::to_bitfield: one bit set, that of the node *)
to_bitfield(node) == 2^NodeIndex(node)

(* NodeId::to_inverse_bitfield: every bit set but that of the node *)
to_inverse_bitfield(node) == Not4(to_bitfield(node))

(* helpers::bit_iterator: the (index, value) pairs of the lines the mask names, *)
(* in ascending index order                                                     *)
RECURSIVE bit_iterator_from(_, _, _)
bit_iterator_from(n, nodes_state, nodes_mask) ==
    IF n >= NodeCount THEN << >>
    ELSE (IF Bit(nodes_mask, n) = 1
          THEN << <<n, Bit(nodes_state, n)>> >>
          ELSE << >>) \o bit_iterator_from(n + 1, nodes_state, nodes_mask)

bit_iterator(nodes_state, nodes_mask) == bit_iterator_from(0, nodes_state, nodes_mask)

(* mux_values with the word of Node1 repeated for Node2 *)
mux_values_dup(node) ==
    CASE node = "Node1" -> 12
      [] node = "Node2" -> 12
      [] node = "Node3" -> 3
      [] node = "Node4" -> 7

(* the mux word of select_usb *)
mux_values(node) ==
    CASE node = "Node1" -> 12   \* 0b1100
      [] node = "Node2" -> 13   \* 0b1101
      [] node = "Node3" -> 3    \* 0b0011
      [] node = "Node4" -> 7    \* 0b0111

(* vbus_values with the bit field of the node in place of its inverse *)
vbus_values_not_inverted(node, mode) ==
    IF mode = "Host" THEN to_bitfield(node) ELSE 15

(* vbus_values with Flash handled as Host *)
vbus_values_flash_as_host(node, mode) ==
    IF mode = "Device" THEN 15 ELSE to_inverse_bitfield(node)

(* the vbus word of select_usb *)
vbus_values(node, mode) ==
    IF mode = "Host" THEN to_inverse_bitfield(node) ELSE 15   \* 0b1111

(* boot_args with the Flash state left at 0 *)
boot_args_flash_state_zero(node, mode) ==
    IF mode = "Flash" THEN <<0, to_bitfield(node)>>
    ELSE <<0, 15>>

(* boot_args with the Flash mask naming every node *)
boot_args_flash_mask_all(node, mode) ==
    IF mode = "Flash" THEN <<to_bitfield(node), 15>>
    ELSE <<0, 15>>

(* boot_args clearing only the line of the node when the mode is not Flash *)
boot_args_clear_own(node, mode) ==
    IF mode = "Flash" THEN <<to_bitfield(node), to_bitfield(node)>>
    ELSE <<0, to_bitfield(node)>>

(* the (nodes_state, nodes_mask) select_usb hands to set_usb_boot *)
boot_args(node, mode) ==
    IF mode = "Flash" THEN <<to_bitfield(node), to_bitfield(node)>>
    ELSE <<0, 15>>

(* power_payload with the two payloads exchanged *)
power_payload_swapped(route) == IF route = "UsbA" THEN "disabled" ELSE "enabled"

(* the switch value and the file payload of set_usb_route *)
switch_value(route) == IF route = "UsbA" THEN 0 ELSE 1
power_payload(route) == IF route = "UsbA" THEN "enabled" ELSE "disabled"

----------------------------------------------------------------------------
(* State *)

NoCall == [op |-> "none", node |-> "Node1", mode |-> "Host",
           nodes_state |-> 0, nodes_mask |-> 0, route |-> "UsbA"]

NoPrev == [set |-> FALSE, node |-> "Node1", mode |-> "Host",
           select_ok |-> FALSE, route_ok |-> FALSE]

Snapshot == [usb_vbus |-> usb_vbus, usb_mux |-> usb_mux, usb_switch |-> usb_switch,
             rpi_boot |-> rpi_boot, rtl_reset |-> rtl_reset, port_power |-> port_power]

Entry(line, idx, value, ok) == [line |-> line, idx |-> idx, value |-> value, ok |-> ok]

(* the second caller has no call in flight *)
NoOther == [pc |-> "idle", call |-> NoCall, updates |-> << >>,
            result |-> "none", log |-> << >>]

(* the names PinController::new looks up on chip1 *)
USBOTG_DEV == <<"node1-usbotg-dev", "node2-usbotg-dev",
                "node3-usbotg-dev", "node4-usbotg-dev">>
RPIBOOT == <<"node1-rpiboot", "node2-rpiboot", "node3-rpiboot", "node4-rpiboot">>

RequiredNames == {USBOTG_DEV[i] : i \in 1 .. NodeCount} \cup {RPIBOOT[i] : i \in 1 .. NodeCount}

(* the fields of PinController *)
Groups == {"usb_vbus", "usb_mux", "usb_switch", "rpi_boot", "rtl_reset"}

NoController == {}

Init ==
    /\ usb_vbus = 0
    /\ usb_mux = 0
    /\ usb_switch = 0
    /\ rpi_boot = [i \in 0 .. (NodeCount - 1) |-> 0]
    /\ rtl_reset = 0
    /\ port_power \in {"enabled", "disabled"}
    /\ pc = "idle"
    /\ call = NoCall
    /\ updates = << >>
    /\ result = "none"
    /\ log = << >>
    /\ pre = Snapshot
    /\ prev = NoPrev
    /\ chip1_lines = RequiredNames
    /\ controller = Groups
    /\ other = NoOther

(* a caller enters an operation *)
Enter(c, first) ==
    /\ pc = "idle"
    /\ pc' = first
    /\ call' = c
    /\ result' = "none"
    /\ log' = << >>
    /\ pre' = Snapshot
    /\ UNCHANGED <<prev, ctor, other>>

(* the call returns Err from a failed write: nothing is written *)
Fail(line, idx, value) ==
    /\ pc' = "done"
    /\ result' = "err"
    /\ log' = Append(log, Entry(line, idx, value, FALSE))
    /\ UNCHANGED <<lines, call, updates, pre, prev, ctor, other>>

----------------------------------------------------------------------------
(* PinController::new *)

Step(kind, target, idx, chip) == [kind |-> kind, target |-> target, idx |-> idx, chip |-> chip]

(* NewSteps with the mux requested on chip0 before the names of chip1 are looked up *)
NewSteps_mux_first ==
    << Step("open", "/dev/gpiochip0", 0, "chip0"),
       Step("open", "/dev/gpiochip1", 0, "chip1"),
       Step("request", "usb_mux", 0, "chip0") >>
    \o [i \in 1 .. NodeCount |-> Step("get", USBOTG_DEV[i], i - 1, "chip1")]
    \o << Step("request", "usb_vbus", 0, "chip1") >>
    \o [i \in 1 .. NodeCount |-> Step("get", RPIBOOT[i], i - 1, "chip1")]
    \o [i \in 1 .. NodeCount |-> Step("request", "rpi_boot", i - 1, "chip1")]
    \o << Step("request", "usb_switch", 0, "chip0"),
          Step("request", "rtl_reset", 0, "chip0") >>

(* the fallible steps of new, in program order *)
NewSteps ==
    << Step("open", "/dev/gpiochip0", 0, "chip0"),
       Step("open", "/dev/gpiochip1", 0, "chip1") >>
    \o [i \in 1 .. NodeCount |-> Step("get", USBOTG_DEV[i], i - 1, "chip1")]
    \o << Step("request", "usb_vbus", 0, "chip1") >>
    \o [i \in 1 .. NodeCount |-> Step("get", RPIBOOT[i], i - 1, "chip1")]
    \o [i \in 1 .. NodeCount |-> Step("request", "rpi_boot", i - 1, "chip1")]
    \o << Step("request", "usb_mux", 0, "chip0"),
          Step("request", "usb_switch", 0, "chip0"),
          Step("request", "rtl_reset", 0, "chip0") >>

(* the step new is at: every step taken is in the log *)
NewAt == IF Len(log) < Len(NewSteps) THEN NewSteps[Len(log) + 1] ELSE Step("return", "Self", 0, "none")

NewEntry(step, ok) ==
    [kind |-> step.kind, target |-> step.target, idx |-> step.idx, chip |-> step.chip, ok |-> ok]

(* the line groups requested with success so far *)
Acquired ==
    {g \in Groups :
        IF g = "rpi_boot"
        THEN \A i \in 0 .. (NodeCount - 1) :
                 \E k \in 1 .. Len(log) :
                     log[k].kind = "request" /\ log[k].target = g /\ log[k].idx = i /\ log[k].ok
        ELSE \E k \in 1 .. Len(log) :
                 log[k].kind = "request" /\ log[k].target = g /\ log[k].ok}

(* before new is called: no controller, any set of names on chip1 *)
InitNew ==
    /\ usb_vbus = 0
    /\ usb_mux = 0
    /\ usb_switch = 0
    /\ rpi_boot = [i \in 0 .. (NodeCount - 1) |-> 0]
    /\ rtl_reset = 0
    /\ port_power \in {"enabled", "disabled"}
    /\ pc = "new"
    /\ call = [NoCall EXCEPT !.op = "new"]
    /\ updates = << >>
    /\ result = "none"
    /\ log = << >>
    /\ pre = Snapshot
    /\ prev = NoPrev
    /\ chip1_lines \in SUBSET RequiredNames
    /\ controller = NoController
    /\ other = NoOther

(* the step succeeds and new goes on *)
NewOk(step) ==
    /\ log' = Append(log, NewEntry(step, TRUE))
    /\ UNCHANGED <<lines, pc, call, updates, result, pre, prev, ctor, other>>

(* the `?` of the step returns Err: the lines requested so far are dropped *)
NewErr(step) ==
    /\ log' = Append(log, NewEntry(step, FALSE))
    /\ pc' = "done"
    /\ result' = "err"
    /\ UNCHANGED <<lines, call, updates, pre, prev, ctor, other>>

(* Chip::new(..).context(..)? *)
new_open ==
    /\ pc = "new"
    /\ NewAt.kind = "open"
    /\ \/ NewOk(NewAt)
       \/ NewErr(NewAt)

(* new_get going on when the name is not found *)
new_get_ignore_missing ==
    /\ pc = "new"
    /\ NewAt.kind = "get"
    /\ NewOk(NewAt)

(* chip1_lines.get(NAME).ok_or(..)? *)
new_get ==
    /\ pc = "new"
    /\ NewAt.kind = "get"
    /\ IF NewAt.target \in chip1_lines THEN NewOk(NewAt) ELSE NewErr(NewAt)

(* gpio_output_lines!(..) and gpio_output_array!(..): a request of *)
(* output lines whose failure is returned                          *)
new_request_macro ==
    /\ pc = "new"
    /\ NewAt.kind = "request"
    /\ NewAt.target # "rtl_reset"
    /\ \/ NewOk(NewAt)
       \/ NewErr(NewAt)

(* chip0.request_lines(Options::output([RTL_RESET]).active(Low)).context(..)? *)
new_request ==
    /\ pc = "new"
    /\ NewAt.kind = "request"
    /\ NewAt.target = "rtl_reset"
    /\ \/ NewOk(NewAt)
       \/ NewErr(NewAt)

(* Ok(Self { usb_vbus, usb_mux, usb_switch, rpi_boot, rtl_reset }) *)
new_return ==
    /\ pc = "new"
    /\ NewAt.kind = "return"
    /\ pc' = "done"
    /\ result' = "ok"
    /\ controller' = Acquired
    /\ UNCHANGED <<lines, call, updates, log, pre, prev, chip1_lines, other>>

----------------------------------------------------------------------------
(* select_usb *)

call_select_usb ==
    \E node \in NodeId, mode \in UsbMode :
        /\ Enter([NoCall EXCEPT !.op = "select_usb", !.node = node, !.mode = mode], "mux")
        /\ UNCHANGED <<lines, updates>>

(* select_usb_mux without the `?`: a failed mux write is ignored *)
select_usb_mux_ignore_err ==
    /\ pc = "mux"
    /\ LET values == mux_values(call.node) IN
       \/ /\ usb_mux' = set_values(4, values)
          /\ pc' = "vbus"
          /\ log' = Append(log, Entry("usb_mux", 0, values, TRUE))
          /\ UNCHANGED <<usb_vbus, usb_switch, rpi_boot, rtl_reset, port_power,
                         call, updates, result, pre, prev, ctor, other>>
       \/ /\ pc' = "vbus"
          /\ log' = Append(log, Entry("usb_mux", 0, values, FALSE))
          /\ UNCHANGED <<lines, call, updates, result, pre, prev, ctor, other>>

(* self.usb_mux.set_values(values)? *)
select_usb_mux ==
    /\ pc = "mux"
    /\ LET values == mux_values(call.node) IN
       \/ /\ usb_mux' = set_values(4, values)
          /\ pc' = "vbus"
          /\ log' = Append(log, Entry("usb_mux", 0, values, TRUE))
          /\ UNCHANGED <<usb_vbus, usb_switch, rpi_boot, rtl_reset, port_power,
                         call, updates, result, pre, prev, ctor, other>>
       \/ Fail("usb_mux", 0, values)

(* select_usb_vbus driving vbus only when the mode is Host *)
select_usb_vbus_host_only ==
    /\ pc = "vbus"
    /\ LET vbus == vbus_values(call.node, call.mode)
           args == boot_args(call.node, call.mode) IN
       \/ /\ usb_vbus' = IF call.mode = "Host" THEN set_values(4, vbus) ELSE usb_vbus
          /\ pc' = "rpi_boot"
          /\ call' = [call EXCEPT !.nodes_state = args[1], !.nodes_mask = args[2]]
          /\ updates' = bit_iterator(args[1], args[2])
          /\ log' = Append(log, Entry("usb_vbus", 0, vbus, TRUE))
          /\ UNCHANGED <<usb_mux, usb_switch, rpi_boot, rtl_reset, port_power,
                         result, pre, prev, ctor, other>>
       \/ Fail("usb_vbus", 0, vbus)

(* self.usb_vbus.set_values(vbus)?, then the call of set_usb_boot *)
select_usb_vbus ==
    /\ pc = "vbus"
    /\ LET vbus == vbus_values(call.node, call.mode)
           args == boot_args(call.node, call.mode) IN
       \/ /\ usb_vbus' = set_values(4, vbus)
          /\ pc' = "rpi_boot"
          /\ call' = [call EXCEPT !.nodes_state = args[1], !.nodes_mask = args[2]]
          /\ updates' = bit_iterator(args[1], args[2])
          /\ log' = Append(log, Entry("usb_vbus", 0, vbus, TRUE))
          /\ UNCHANGED <<usb_mux, usb_switch, rpi_boot, rtl_reset, port_power,
                         result, pre, prev, ctor, other>>
       \/ Fail("usb_vbus", 0, vbus)

----------------------------------------------------------------------------
(* set_usb_boot *)

call_set_usb_boot ==
    \E nodes_state \in BootStates, nodes_mask \in BootMasks :
        /\ Enter([NoCall EXCEPT !.op = "set_usb_boot", !.nodes_state = nodes_state,
                                !.nodes_mask = nodes_mask], "rpi_boot")
        /\ updates' = bit_iterator(nodes_state, nodes_mask)
        /\ UNCHANGED lines

(* set_usb_boot entered with arguments of the sample *)
call_set_usb_boot_some ==
    \E nodes_state \in SomeBootStates, nodes_mask \in SomeBootMasks :
        /\ Enter([NoCall EXCEPT !.op = "set_usb_boot", !.nodes_state = nodes_state,
                                !.nodes_mask = nodes_mask], "rpi_boot")
        /\ updates' = bit_iterator(nodes_state, nodes_mask)
        /\ UNCHANGED lines

(* set_usb_boot_write driving 1 whatever the state *)
set_usb_boot_write_enable ==
    /\ pc = "rpi_boot"
    /\ updates # << >>
    /\ LET idx == Head(updates)[1]
           state == Head(updates)[2] IN
       \/ /\ rpi_boot' = [rpi_boot EXCEPT ![idx] = 1]
          /\ updates' = Tail(updates)
          /\ log' = Append(log, Entry("rpi_boot", idx, state, TRUE))
          /\ UNCHANGED <<usb_vbus, usb_mux, usb_switch, rtl_reset, port_power,
                         pc, call, result, pre, prev, ctor, other>>
       \/ Fail("rpi_boot", idx, state)

(* set_usb_boot_write toggling the line where the state is 1 *)
set_usb_boot_write_toggle ==
    /\ pc = "rpi_boot"
    /\ updates # << >>
    /\ LET idx == Head(updates)[1]
           state == Head(updates)[2] IN
       \/ /\ rpi_boot' = [rpi_boot EXCEPT ![idx] = (rpi_boot[idx] + state) % 2]
          /\ updates' = Tail(updates)
          /\ log' = Append(log, Entry("rpi_boot", idx, state, TRUE))
          /\ UNCHANGED <<usb_vbus, usb_mux, usb_switch, rtl_reset, port_power,
                         pc, call, result, pre, prev, ctor, other>>
       \/ Fail("rpi_boot", idx, state)

(* set_usb_boot_write passing over the pairs whose state is 0 *)
set_usb_boot_write_skip_zero ==
    /\ pc = "rpi_boot"
    /\ updates # << >>
    /\ LET idx == Head(updates)[1]
           state == Head(updates)[2] IN
       \/ /\ rpi_boot' = IF state = 0 THEN rpi_boot
                         ELSE [rpi_boot EXCEPT ![idx] = set_values(1, state)]
          /\ updates' = Tail(updates)
          /\ log' = IF state = 0 THEN log
                    ELSE Append(log, Entry("rpi_boot", idx, state, TRUE))
          /\ UNCHANGED <<usb_vbus, usb_mux, usb_switch, rtl_reset, port_power,
                         pc, call, result, pre, prev, ctor, other>>
       \/ Fail("rpi_boot", idx, state)

(* one turn of the loop: self.rpi_boot[idx].set_values(state)? *)
set_usb_boot_write ==
    /\ pc = "rpi_boot"
    /\ updates # << >>
    /\ LET idx == Head(updates)[1]
           state == Head(updates)[2] IN
       \/ /\ rpi_boot' = [rpi_boot EXCEPT ![idx] = set_values(1, state)]
          /\ updates' = Tail(updates)
          /\ log' = Append(log, Entry("rpi_boot", idx, state, TRUE))
          /\ UNCHANGED <<usb_vbus, usb_mux, usb_switch, rtl_reset, port_power,
                         pc, call, result, pre, prev, ctor, other>>
       \/ Fail("rpi_boot", idx, state)

(* the iterator is exhausted: Ok(()) *)
set_usb_boot_end ==
    /\ pc = "rpi_boot"
    /\ updates = << >>
    /\ pc' = "done"
    /\ result' = "ok"
    /\ UNCHANGED <<lines, call, updates, log, pre, prev, ctor, other>>

----------------------------------------------------------------------------
(* select_usb called by a second caller on the same controller.  The method  *)
(* takes &self and the controller holds no lock, so the second call runs the *)
(* same statements on the same lines, whatever the first call is doing.      *)

(* the second call returns Err from a failed write *)
other_Fail(line, idx, value) ==
    /\ other' = [other EXCEPT !.pc = "done", !.result = "err",
                              !.log = Append(@, Entry(line, idx, value, FALSE))]
    /\ UNCHANGED <<lines, ctl, ctor>>

(* other_call_select_usb behind a lock that the first call holds while it runs *)
other_call_select_usb_locked ==
    \E node \in NodeId, mode \in UsbMode :
        /\ other.pc = "idle"
        /\ pc \in {"idle", "done"}
        /\ other' = [other EXCEPT !.pc = "mux",
                                  !.call = [NoCall EXCEPT !.op = "select_usb",
                                                          !.node = node, !.mode = mode]]
        /\ UNCHANGED <<lines, ctl, ctor>>

other_call_select_usb ==
    \E node \in NodeId, mode \in UsbMode :
        /\ other.pc = "idle"
        /\ other' = [other EXCEPT !.pc = "mux",
                                  !.call = [NoCall EXCEPT !.op = "select_usb",
                                                          !.node = node, !.mode = mode]]
        /\ UNCHANGED <<lines, ctl, ctor>>

(* self.usb_mux.set_values(values)? *)
other_select_usb_mux ==
    /\ other.pc = "mux"
    /\ LET values == mux_values(other.call.node) IN
       \/ /\ usb_mux' = set_values(4, values)
          /\ other' = [other EXCEPT !.pc = "vbus",
                                    !.log = Append(@, Entry("usb_mux", 0, values, TRUE))]
          /\ UNCHANGED <<usb_vbus, usb_switch, rpi_boot, rtl_reset, port_power, ctl, ctor>>
       \/ other_Fail("usb_mux", 0, values)

(* self.usb_vbus.set_values(vbus)?, then the call of set_usb_boot *)
other_select_usb_vbus ==
    /\ other.pc = "vbus"
    /\ LET vbus == vbus_values(other.call.node, other.call.mode)
           args == boot_args(other.call.node, other.call.mode) IN
       \/ /\ usb_vbus' = set_values(4, vbus)
          /\ other' = [other EXCEPT !.pc = "rpi_boot",
                                    !.call = [@ EXCEPT !.nodes_state = args[1],
                                                       !.nodes_mask = args[2]],
                                    !.updates = bit_iterator(args[1], args[2]),
                                    !.log = Append(@, Entry("usb_vbus", 0, vbus, TRUE))]
          /\ UNCHANGED <<usb_mux, usb_switch, rpi_boot, rtl_reset, port_power, ctl, ctor>>
       \/ other_Fail("usb_vbus", 0, vbus)

(* one turn of the loop of set_usb_boot *)
other_set_usb_boot_write ==
    /\ other.pc = "rpi_boot"
    /\ other.updates # << >>
    /\ LET idx == Head(other.updates)[1]
           state == Head(other.updates)[2] IN
       \/ /\ rpi_boot' = [rpi_boot EXCEPT ![idx] = set_values(1, state)]
          /\ other' = [other EXCEPT !.updates = Tail(@),
                                    !.log = Append(@, Entry("rpi_boot", idx, state, TRUE))]
          /\ UNCHANGED <<usb_vbus, usb_mux, usb_switch, rtl_reset, port_power, ctl, ctor>>
       \/ other_Fail("rpi_boot", idx, state)

(* the iterator is exhausted: Ok(()) *)
other_set_usb_boot_end ==
    /\ other.pc = "rpi_boot"
    /\ other.updates = << >>
    /\ other' = [other EXCEPT !.pc = "done", !.result = "ok"]
    /\ UNCHANGED <<lines, ctl, ctor>>

----------------------------------------------------------------------------
(* set_usb_route *)

call_set_usb_route ==
    \E route \in UsbRoute :
        /\ Enter([NoCall EXCEPT !.op = "set_usb_route", !.route = route], "switch")
        /\ UNCHANGED <<lines, updates>>

(* set_usb_route_switch writing the mux group in place of the switch *)
set_usb_route_switch_wrong_group ==
    /\ pc = "switch"
    /\ LET v == switch_value(call.route) IN
       \/ /\ usb_mux' = set_values(4, v)
          /\ pc' = "file"
          /\ log' = Append(log, Entry("usb_switch", 0, v, TRUE))
          /\ UNCHANGED <<usb_vbus, usb_switch, rpi_boot, rtl_reset, port_power,
                         call, updates, result, pre, prev, ctor, other>>
       \/ Fail("usb_switch", 0, v)

(* set_usb_route_switch without the `?`: a failed switch write is ignored *)
set_usb_route_switch_ignore_err ==
    /\ pc = "switch"
    /\ LET v == switch_value(call.route) IN
       \/ /\ usb_switch' = set_values(1, v)
          /\ pc' = "file"
          /\ log' = Append(log, Entry("usb_switch", 0, v, TRUE))
          /\ UNCHANGED <<usb_vbus, usb_mux, rpi_boot, rtl_reset, port_power,
                         call, updates, result, pre, prev, ctor, other>>
       \/ /\ pc' = "file"
          /\ log' = Append(log, Entry("usb_switch", 0, v, FALSE))
          /\ UNCHANGED <<lines, call, updates, result, pre, prev, ctor, other>>

(* self.usb_switch.set_values(..)? *)
set_usb_route_switch ==
    /\ pc = "switch"
    /\ LET v == switch_value(call.route) IN
       \/ /\ usb_switch' = set_values(1, v)
          /\ pc' = "file"
          /\ log' = Append(log, Entry("usb_switch", 0, v, TRUE))
          /\ UNCHANGED <<usb_vbus, usb_mux, rpi_boot, rtl_reset, port_power,
                         call, updates, result, pre, prev, ctor, other>>
       \/ Fail("usb_switch", 0, v)

(* set_usb_route_file leaving the file alone when the switch did not change *)
set_usb_route_file_cached ==
    /\ pc = "file"
    /\ LET payload == power_payload(call.route) IN
       \/ /\ pre.usb_switch = usb_switch
          /\ pc' = "done"
          /\ result' = "ok"
          /\ UNCHANGED <<lines, call, updates, log, pre, prev, ctor, other>>
       \/ /\ pre.usb_switch # usb_switch
          /\ port_power' = payload
          /\ pc' = "done"
          /\ result' = "ok"
          /\ log' = Append(log, Entry("port_power", 0, payload, TRUE))
          /\ UNCHANGED <<usb_vbus, usb_mux, usb_switch, rpi_boot, rtl_reset,
                         call, updates, pre, prev, ctor, other>>
       \/ Fail("port_power", 0, payload)

(* tokio::fs::write(USB_PORT_POWER, ..).await *)
set_usb_route_file ==
    /\ pc = "file"
    /\ LET payload == power_payload(call.route) IN
       \/ /\ port_power' = payload
          /\ pc' = "done"
          /\ result' = "ok"
          /\ log' = Append(log, Entry("port_power", 0, payload, TRUE))
          /\ UNCHANGED <<usb_vbus, usb_mux, usb_switch, rpi_boot, rtl_reset,
                         call, updates, pre, prev, ctor, other>>
       \/ Fail("port_power", 0, payload)

----------------------------------------------------------------------------
(* rtl_reset *)

call_rtl_reset ==
    /\ Enter([NoCall EXCEPT !.op = "rtl_reset"], "assert")
    /\ UNCHANGED <<lines, updates>>

(* rtl_reset_assert followed by a sleep that is not awaited *)
rtl_reset_assert_no_await ==
    /\ pc = "assert"
    /\ \/ /\ rtl_reset' = set_values(1, 1)
          /\ pc' = "deassert"
          /\ log' = Append(log, Entry("rtl_reset", 0, 1, TRUE))
          /\ UNCHANGED <<usb_vbus, usb_mux, usb_switch, rpi_boot, port_power,
                         call, updates, result, pre, prev, ctor, other>>
       \/ Fail("rtl_reset", 0, 1)

(* self.rtl_reset.set_values(1u8)? *)
rtl_reset_assert ==
    /\ pc = "assert"
    /\ \/ /\ rtl_reset' = set_values(1, 1)
          /\ pc' = "sleep"
          /\ log' = Append(log, Entry("rtl_reset", 0, 1, TRUE))
          /\ UNCHANGED <<usb_vbus, usb_mux, usb_switch, rpi_boot, port_power,
                         call, updates, result, pre, prev, ctor, other>>
       \/ Fail("rtl_reset", 0, 1)

(* sleep(Duration::from_secs(1)).await *)
rtl_reset_sleep ==
    /\ pc = "sleep"
    /\ pc' = "deassert"
    /\ log' = Append(log, Entry("sleep", 0, 1, TRUE))
    /\ UNCHANGED <<lines, call, updates, result, pre, prev, ctor, other>>

(* self.rtl_reset.set_values(0u8) *)
rtl_reset_deassert ==
    /\ pc = "deassert"
    /\ \/ /\ rtl_reset' = set_values(1, 0)
          /\ pc' = "done"
          /\ result' = "ok"
          /\ log' = Append(log, Entry("rtl_reset", 0, 0, TRUE))
          /\ UNCHANGED <<usb_vbus, usb_mux, usb_switch, rpi_boot, port_power,
                         call, updates, pre, prev, ctor, other>>
       \/ Fail("rtl_reset", 0, 0)

----------------------------------------------------------------------------
(* Cancellation: the caller drops the future of a suspended call.  The only   *)
(* suspension points are the awaited sleep of rtl_reset and the awaited file  *)
(* write of set_usb_route.  Nothing after the await runs; the file write,     *)
(* handed to the runtime, may or may not have been carried out.               *)

(* Cancel with a guard that puts the lines back as they were *)
Cancel_rollback ==
    /\ pc \in {"sleep", "file"}
    /\ pc' = "done"
    /\ result' = "cancelled"
    /\ rtl_reset' = pre.rtl_reset
    /\ usb_switch' = pre.usb_switch
    /\ UNCHANGED <<usb_vbus, usb_mux, rpi_boot, port_power,
                   call, updates, log, pre, prev, ctor, other>>

Cancel ==
    /\ pc \in {"sleep", "file"}
    /\ pc' = "done"
    /\ result' = "cancelled"
    /\ port_power' \in IF pc = "file"
                       THEN {port_power, power_payload(call.route)}
                       ELSE {port_power}
    /\ UNCHANGED <<usb_vbus, usb_mux, usb_switch, rpi_boot, rtl_reset,
                   call, updates, log, pre, prev, ctor, other>>

----------------------------------------------------------------------------
(* the caller takes the result; the next call may start *)
Return ==
    /\ pc = "done"
    /\ pc' = "idle"
    /\ prev' = [set |-> call.op = "select_usb" /\ result = "ok",
                node |-> IF call.op = "select_usb" /\ result = "ok"
                         THEN call.node ELSE NoPrev.node,
                mode |-> IF call.op = "select_usb" /\ result = "ok"
                         THEN call.mode ELSE NoPrev.mode,
                select_ok |-> IF call.op = "select_usb"
                              THEN result = "ok" ELSE prev.select_ok,
                route_ok |-> IF call.op = "set_usb_route"
                             THEN result = "ok" ELSE prev.route_ok]
    /\ call' = NoCall
    /\ updates' = << >>
    /\ result' = "none"
    /\ log' = << >>
    /\ pre' = Snapshot
    /\ UNCHANGED <<lines, ctor, other>>

----------------------------------------------------------------------------
(* Specifications *)

(* every operation of the controller, serialized *)
Next ==
    \/ call_select_usb
    \/ select_usb_mux
    \/ select_usb_vbus
    \/ call_set_usb_boot
    \/ set_usb_boot_write
    \/ set_usb_boot_end
    \/ call_set_usb_route
    \/ set_usb_route_switch
    \/ set_usb_route_file
    \/ call_rtl_reset
    \/ rtl_reset_assert
    \/ rtl_reset_sleep
    \/ rtl_reset_deassert
    \/ Cancel
    \/ Return

Spec == Init /\ [][Next]_vars

(* the USB selection operations alone: select_usb and set_usb_boot *)
NextUsb ==
    \/ call_select_usb
    \/ select_usb_mux
    \/ select_usb_vbus
    \/ call_set_usb_boot
    \/ set_usb_boot_write
    \/ set_usb_boot_end
    \/ Return

SpecUsb == Init /\ [][NextUsb]_vars

(* the route and reset operations alone *)
NextRoute ==
    \/ call_set_usb_route
    \/ set_usb_route_switch
    \/ set_usb_route_file
    \/ call_rtl_reset
    \/ rtl_reset_assert
    \/ rtl_reset_sleep
    \/ rtl_reset_deassert
    \/ Cancel
    \/ Return

SpecRoute == Init /\ [][NextRoute]_vars

(* every operation of the controller, serialized, set_usb_boot being called *)
(* with the arguments of the sample                                         *)
NextSome ==
    \/ call_select_usb
    \/ select_usb_mux
    \/ select_usb_vbus
    \/ call_set_usb_boot_some
    \/ set_usb_boot_write
    \/ set_usb_boot_end
    \/ call_set_usb_route
    \/ set_usb_route_switch
    \/ set_usb_route_file
    \/ call_rtl_reset
    \/ rtl_reset_assert
    \/ rtl_reset_sleep
    \/ rtl_reset_deassert
    \/ Cancel
    \/ Return

SpecSome == Init /\ [][NextSome]_vars

(* two callers, one select_usb call each, with no serialization between them *)
NextConc ==
    \/ call_select_usb
    \/ select_usb_mux
    \/ select_usb_vbus
    \/ set_usb_boot_write
    \/ set_usb_boot_end
    \/ other_call_select_usb
    \/ other_select_usb_mux
    \/ other_select_usb_vbus
    \/ other_set_usb_boot_write
    \/ other_set_usb_boot_end

SpecConc == Init /\ [][NextConc]_vars

(* the construction of the controller *)
NextNew ==
    \/ new_open
    \/ new_get
    \/ new_request_macro
    \/ new_request
    \/ new_return

SpecNew == InitNew /\ [][NextNew]_vars

(* the route and reset operations with the progress the runtime gives: a     *)
(* synchronous write returns, the timer fires, the file write completes, and *)
(* the caller takes the result                                               *)
SpecRouteFair ==
    /\ SpecRoute
    /\ WF_vars(set_usb_route_switch)
    /\ WF_vars(set_usb_route_file)
    /\ WF_vars(rtl_reset_assert)
    /\ WF_vars(rtl_reset_sleep)
    /\ WF_vars(rtl_reset_deassert)
    /\ WF_vars(Return)

TypeOK ==
    /\ usb_vbus \in Word
    /\ usb_mux \in Word
    /\ usb_switch \in {0, 1}
    /\ rpi_boot \in [0 .. (NodeCount - 1) -> {0, 1}]
    /\ rtl_reset \in {0, 1}
    /\ port_power \in {"enabled", "disabled"}
    /\ result \in {"none", "ok", "err", "cancelled"}
    /\ Len(log) <= (IF call.op = "new" THEN Len(NewSteps) ELSE NodeCount + 2)
    /\ chip1_lines \subseteq RequiredNames
    /\ controller \subseteq Groups

----------------------------------------------------------------------------
(* Vocabulary of the properties *)

(* a select_usb call has just returned Ok *)
SelectOk == pc = "done" /\ call.op = "select_usb" /\ result = "ok"

(* a direct set_usb_boot call has just returned Ok *)
BootOk == pc = "done" /\ call.op = "set_usb_boot" /\ result = "ok"

(* a set_usb_route call has just returned Ok *)
RouteOk == pc = "done" /\ call.op = "set_usb_route" /\ result = "ok"

Nodes == 0 .. (NodeCount - 1)

(* the call in flight has issued a write of rpiboot line i *)
Issued(i) == \E k \in 1 .. Len(log) : log[k].line = "rpi_boot" /\ log[k].idx = i

(* the rpiboot lines that are asserted *)
Asserted == {i \in Nodes : rpi_boot[i] = 1}

(* the call in flight ended on a failed write of the given group *)
FailedOn(line) ==
    /\ result = "err"
    /\ Len(log) > 0
    /\ log[Len(log)].line = line
    /\ ~ log[Len(log)].ok

----------------------------------------------------------------------------
(* C1: a successful select_usb(node, mode) leaves usb_mux at the table entry *)
(* of the node (Node1 1100, Node2 1101, Node3 0011, Node4 0111) whatever the *)
(* mode and the prior state, and the four entries are pairwise distinct.     *)
C1_MuxTable ==
    /\ SelectOk =>
          /\ call.node = "Node1" => usb_mux = 12
          /\ call.node = "Node2" => usb_mux = 13
          /\ call.node = "Node3" => usb_mux = 3
          /\ call.node = "Node4" => usb_mux = 7
    /\ \A a, b \in NodeId : a # b => mux_values(a) # mux_values(b)

C1_Witness ==
    /\ SelectOk
    /\ call.node = "Node3"
    /\ call.mode = "Flash"
    /\ pre.usb_mux = 13
    /\ usb_mux = 3

(* C2: a successful select_usb(node, mode) leaves usb_vbus at the 4-bit        *)
(* complement of the node's single-bit field when mode is Host, and at 1111    *)
(* when mode is Device or Flash.                                               *)
C2_VbusWord ==
    SelectOk =>
        /\ call.mode = "Host" =>
              \A i \in Nodes : Bit(usb_vbus, i) = 1 - Bit(to_bitfield(call.node), i)
        /\ call.mode \in {"Device", "Flash"} => usb_vbus = 15
        /\ usb_vbus \in Word

C2_Witness ==
    /\ SelectOk
    /\ call.node = "Node2"
    /\ call.mode = "Host"
    /\ pre.usb_vbus = 15
    /\ usb_vbus = 13

(* C3: set_usb_boot(state, mask) without a write failure writes rpiboot line i *)
(* iff bit i of mask is 1, the value written is bit i of state, and a line     *)
(* whose mask bit is 0 keeps its prior value.                                  *)
C3_BootMasked ==
    BootOk =>
        \A i \in Nodes :
            /\ Issued(i) <=> Bit(call.nodes_mask, i) = 1
            /\ \A k \in 1 .. Len(log) :
                  (log[k].line = "rpi_boot" /\ log[k].idx = i) =>
                      log[k].ok /\ log[k].value = Bit(call.nodes_state, i)
            /\ Bit(call.nodes_mask, i) = 1 => rpi_boot[i] = Bit(call.nodes_state, i)
            /\ Bit(call.nodes_mask, i) = 0 => rpi_boot[i] = pre.rpi_boot[i]

C3_Witness ==
    /\ BootOk
    /\ call.nodes_state = 6     \* 0b0110
    /\ call.nodes_mask = 5      \* 0b0101
    /\ pre.rpi_boot = [i \in Nodes |-> IF i \in {0, 1} THEN 1 ELSE 0]
    /\ rpi_boot = [i \in Nodes |-> IF i \in {1, 2} THEN 1 ELSE 0]

(* C4, as claimed: after a successful select_usb(node, Flash) exactly one      *)
(* rpiboot line is asserted, that of the node selected.                        *)
C4_ExactlyOneAsserted ==
    (SelectOk /\ call.mode = "Flash") => Asserted = {NodeIndex(call.node)}

(* C4, amended: after a successful select_usb(node, Flash) the rpiboot line of *)
(* the node selected is asserted, and it is the only one asserted exactly when *)
(* no other rpiboot line was asserted before the call.                         *)
C4_OneAssertedIfOthersClear ==
    (SelectOk /\ call.mode = "Flash") =>
        /\ NodeIndex(call.node) \in Asserted
        /\ Asserted = {NodeIndex(call.node)}
              <=> \A j \in Nodes \ {NodeIndex(call.node)} : pre.rpi_boot[j] = 0

C4_Witness ==
    /\ SelectOk
    /\ call.mode = "Flash"
    /\ call.node = "Node2"
    /\ pre.rpi_boot = [i \in Nodes |-> 0]
    /\ Asserted = {1}

(* C5: a successful select_usb(node, Flash) sets the rpiboot line of the node  *)
(* to 1, writes no other rpiboot line, and leaves the other three at the       *)
(* values they had before the call.                                            *)
C5_FlashFrame ==
    (SelectOk /\ call.mode = "Flash") =>
        /\ rpi_boot[NodeIndex(call.node)] = 1
        /\ Issued(NodeIndex(call.node))
        /\ \A j \in Nodes \ {NodeIndex(call.node)} :
              ~ Issued(j) /\ rpi_boot[j] = pre.rpi_boot[j]

C5_Witness ==
    /\ SelectOk
    /\ call.mode = "Flash"
    /\ call.node = "Node1"
    /\ pre.rpi_boot = [i \in Nodes |-> IF i = 2 THEN 1 ELSE 0]
    /\ rpi_boot = [i \in Nodes |-> IF i \in {0, 2} THEN 1 ELSE 0]

(* C6: a successful select_usb(node, Host) or select_usb(node, Device) leaves  *)
(* all four rpiboot lines at 0, written under mask 1111, whatever they were.   *)
C6_HostDeviceClears ==
    (SelectOk /\ call.mode \in {"Host", "Device"}) =>
        /\ \A i \in Nodes : rpi_boot[i] = 0 /\ Issued(i)
        /\ call.nodes_state = 0
        /\ call.nodes_mask = 15

C6_Witness ==
    /\ SelectOk
    /\ call.mode = "Device"
    /\ call.node = "Node4"
    /\ pre.rpi_boot = [i \in Nodes |-> IF i \in {0, 1} THEN 1 ELSE 0]
    /\ Asserted = {}

(* the state select_usb(node, mode) produces from the lines as constructed *)
FromInit(node, mode) ==
    [usb_mux |-> mux_values(node),
     usb_vbus |-> vbus_values(node, mode),
     rpi_boot |-> [i \in Nodes |-> IF mode = "Flash" /\ i = NodeIndex(node) THEN 1 ELSE 0]]

(* C7, as claimed: a successful select_usb(node, mode) ends in one state of    *)
(* mux, vbus and the four rpiboot lines that (node, mode) alone determines,    *)
(* hence the state the call produces from the lines as constructed.            *)
C7_FinalStateByArgs ==
    SelectOk =>
        [usb_mux |-> usb_mux, usb_vbus |-> usb_vbus, rpi_boot |-> rpi_boot]
            = FromInit(call.node, call.mode)

(* C7, amended: a successful select_usb(node, mode) ends with mux and vbus     *)
(* determined by (node, mode) alone, and with all four rpiboot lines so        *)
(* determined when mode is Host or Device; when mode is Flash only the         *)
(* rpiboot line of the node is determined, the other three keep the values of  *)
(* the starting state.                                                         *)
C7_FinalStateByArgsButFlash ==
    SelectOk =>
        /\ usb_mux = FromInit(call.node, call.mode).usb_mux
        /\ usb_vbus = FromInit(call.node, call.mode).usb_vbus
        /\ call.mode # "Flash" => rpi_boot = FromInit(call.node, call.mode).rpi_boot
        /\ call.mode = "Flash" =>
              \A i \in Nodes :
                  rpi_boot[i] = IF i = NodeIndex(call.node) THEN 1 ELSE pre.rpi_boot[i]

(* the call started from the partial state of a select_usb that failed on vbus *)
C7_Witness ==
    /\ SelectOk
    /\ call.node = "Node1"
    /\ call.mode = "Host"
    /\ pre.usb_mux = 13
    /\ pre.usb_vbus = 0
    /\ pre.rpi_boot = [i \in Nodes |-> IF i = 3 THEN 1 ELSE 0]
    /\ usb_mux = 12 /\ usb_vbus = 14 /\ Asserted = {}

(* C8: the second of two consecutive successful select_usb(node, mode) calls   *)
(* with the same arguments leaves mux, vbus and the rpiboot lines as the first *)
(* one left them.                                                              *)
C8_Idempotent ==
    (SelectOk /\ prev.set /\ prev.node = call.node /\ prev.mode = call.mode) =>
        /\ usb_mux = pre.usb_mux
        /\ usb_vbus = pre.usb_vbus
        /\ rpi_boot = pre.rpi_boot

C8_Witness ==
    /\ SelectOk
    /\ prev.set /\ prev.node = call.node /\ prev.mode = call.mode
    /\ call.mode = "Flash"
    /\ call.node = "Node3"
    /\ Asserted = {0, 2}
    /\ Len(log) = 3

(* C9: select_usb issues its writes in the order mux, vbus, rpiboot; a failed  *)
(* write ends the call with the error and nothing is issued after it; what was *)
(* written stays: a mux failure leaves vbus and rpiboot as they were, a vbus   *)
(* failure leaves the new mux word and rpiboot as it was, an rpiboot failure   *)
(* leaves the new mux and vbus words.                                          *)
C9_OrderNoRollback ==
    call.op = "select_usb" =>
        /\ \A k \in 1 .. Len(log) :
              /\ log[k].line = (IF k = 1 THEN "usb_mux"
                                ELSE IF k = 2 THEN "usb_vbus" ELSE "rpi_boot")
              /\ k < Len(log) => log[k].ok
              /\ ~ log[k].ok => pc = "done" /\ result = "err"
        /\ result = "err" => Len(log) > 0 /\ ~ log[Len(log)].ok
        /\ FailedOn("usb_mux") =>
              usb_vbus = pre.usb_vbus /\ rpi_boot = pre.rpi_boot
        /\ FailedOn("usb_vbus") =>
              usb_mux = mux_values(call.node) /\ rpi_boot = pre.rpi_boot
        /\ FailedOn("rpi_boot") =>
              /\ usb_mux = mux_values(call.node)
              /\ usb_vbus = vbus_values(call.node, call.mode)

C9_Witness ==
    /\ call.op = "select_usb"
    /\ call.node = "Node4"
    /\ FailedOn("usb_vbus")
    /\ pre.usb_mux = 12
    /\ usb_mux = 7
    /\ usb_vbus = pre.usb_vbus
    /\ Len(log) = 2

(* C10: a successful set_usb_route(UsbA) leaves usb_switch at 0 and the file   *)
(* at "enabled", a successful set_usb_route(Bmc) leaves usb_switch at 1 and    *)
(* the file at "disabled"; the switch line is written before the file.         *)
C10_RouteValues ==
    /\ RouteOk =>
          /\ call.route = "UsbA" => usb_switch = 0 /\ port_power = "enabled"
          /\ call.route = "Bmc" => usb_switch = 1 /\ port_power = "disabled"
    /\ call.op = "set_usb_route" =>
          \A k \in 1 .. Len(log) :
              log[k].line = "port_power" =>
                  k = 2 /\ log[1].line = "usb_switch" /\ log[1].ok

C10_Witness ==
    /\ RouteOk
    /\ call.route = "Bmc"
    /\ pre.usb_switch = 0
    /\ pre.port_power = "enabled"
    /\ usb_switch = 1
    /\ port_power = "disabled"
    /\ Len(log) = 2

----------------------------------------------------------------------------
(* the call in flight has issued the k-th entry of its log on the given line *)
LogIs(k, line, value, ok) ==
    /\ Len(log) >= k
    /\ log[k] = Entry(line, 0, value, ok)

(* C11: set_usb_route is not atomic: when the switch write fails the call      *)
(* returns the error and the file is not written; when the switch write        *)
(* succeeds and the file write fails the call returns the error, the switch    *)
(* keeps its new value and the file keeps its old content.                     *)
C11_RouteNotAtomic ==
    call.op = "set_usb_route" =>
        /\ FailedOn("usb_switch") =>
              /\ pc = "done"
              /\ Len(log) = 1
              /\ port_power = pre.port_power
        /\ FailedOn("port_power") =>
              /\ pc = "done"
              /\ LogIs(1, "usb_switch", switch_value(call.route), TRUE)
              /\ Len(log) = 2
              /\ usb_switch = switch_value(call.route)
              /\ port_power = pre.port_power
        /\ \A k \in 1 .. Len(log) : ~ log[k].ok => result = "err" /\ k = Len(log)

C11_Witness ==
    /\ call.op = "set_usb_route"
    /\ call.route = "Bmc"
    /\ FailedOn("port_power")
    /\ pre.usb_switch = 0
    /\ usb_switch = 1
    /\ pre.port_power = "enabled"
    /\ port_power = "enabled"

(* the events of rtl_reset come in the order assert, delay, deassert *)
C12_Order ==
    call.op = "rtl_reset" =>
        /\ \A k \in 1 .. Len(log) :
              log[k].line = (IF k = 2 THEN "sleep" ELSE "rtl_reset")
              /\ (log[k].line = "rtl_reset" => log[k].value = (IF k = 1 THEN 1 ELSE 0))
              /\ (k < Len(log) => log[k].ok)
        /\ Len(log) <= 3
        /\ pc = "sleep" => rtl_reset = 1 /\ Len(log) = 1
        /\ (pc = "done" /\ result = "ok") => rtl_reset = 0 /\ Len(log) = 3 /\ log[3].ok

(* the rtl_reset call in flight has ended *)
C12_Ended ==
    /\ pc = "done"
    /\ call.op = "rtl_reset"
    /\ \/ result = "ok" /\ rtl_reset = 0
       \/ result = "cancelled"
       \/ result = "err"

(* C12: in every rtl_reset call the write of 1 comes before the delay and the  *)
(* write of 0 after it; a call that is not cancelled and whose writes succeed  *)
(* eventually returns with the reset line at 0.                                *)
C12_ResetPulse ==
    /\ [] C12_Order
    /\ (call.op = "rtl_reset" /\ pc = "assert") ~> C12_Ended

C12_Witness ==
    /\ call.op = "rtl_reset"
    /\ pc = "done"
    /\ result = "ok"
    /\ rtl_reset = 0
    /\ LogIs(1, "rtl_reset", 1, TRUE)
    /\ LogIs(2, "sleep", 1, TRUE)
    /\ LogIs(3, "rtl_reset", 0, TRUE)

(* C13: a call cancelled at its suspension point leaves the line it wrote      *)
(* before in place and issues no other write: rtl_reset cancelled in its delay *)
(* leaves the reset line at 1, set_usb_route cancelled in the file write       *)
(* leaves the switch at its new value.                                         *)
C13_CancelNoRollback ==
    result = "cancelled" =>
        /\ pc = "done"
        /\ call.op \in {"rtl_reset", "set_usb_route"}
        /\ Len(log) = 1
        /\ call.op = "rtl_reset" =>
              LogIs(1, "rtl_reset", 1, TRUE) /\ rtl_reset = 1
        /\ call.op = "set_usb_route" =>
              /\ LogIs(1, "usb_switch", switch_value(call.route), TRUE)
              /\ usb_switch = switch_value(call.route)

C13_Witness ==
    /\ result = "cancelled"
    /\ call.op = "set_usb_route"
    /\ call.route = "Bmc"
    /\ pre.usb_switch = 0
    /\ usb_switch = 1

----------------------------------------------------------------------------
(* new has issued a request of a line of the given chip *)
Requested(chip) ==
    \E k \in 1 .. Len(log) : log[k].kind = "request" /\ log[k].chip = chip

(* C14: when one of the eight required names is absent from the line map of   *)
(* chip1, construction fails before any line of chip0 is requested.           *)
C14_NoChip0Request ==
    (call.op = "new" /\ RequiredNames \ chip1_lines # {}) =>
        /\ ~ Requested("chip0")
        /\ result # "ok"
        /\ controller = NoController

C14_Witness ==
    /\ call.op = "new"
    /\ chip1_lines = RequiredNames \ {"node3-rpiboot"}
    /\ pc = "done"
    /\ result = "err"
    /\ log[Len(log)].target = "node3-rpiboot"
    /\ Requested("chip1")
    /\ ~ Requested("chip0")

(* C15: new returns a controller only if both chips open, the eight names     *)
(* resolve and every line request succeeds; the first failing step returns an *)
(* error, no later step runs, and no controller holding a subset of the five  *)
(* line groups is returned.                                                   *)
C15_AllOrNothing ==
    call.op = "new" =>
        /\ \A k \in 1 .. Len(log) :
              /\ log[k].kind = NewSteps[k].kind /\ log[k].target = NewSteps[k].target
              /\ k < Len(log) => log[k].ok
              /\ ~ log[k].ok => pc = "done" /\ result = "err"
              /\ (log[k].kind = "get" /\ log[k].ok) => log[k].target \in chip1_lines
        /\ controller \in {NoController, Groups}
        /\ controller = Groups <=> (pc = "done" /\ result = "ok")
        /\ (pc = "done" /\ result = "ok") =>
              /\ Len(log) = Len(NewSteps)
              /\ \A k \in 1 .. Len(log) : log[k].ok
              /\ RequiredNames \subseteq chip1_lines
        /\ result = "err" => Len(log) > 0 /\ ~ log[Len(log)].ok

C15_Witness ==
    /\ call.op = "new"
    /\ pc = "done"
    /\ result = "err"
    /\ chip1_lines = RequiredNames
    /\ log[Len(log)].target = "usb_switch"
    /\ Acquired = {"usb_vbus", "rpi_boot", "usb_mux"}
    /\ controller = NoController

----------------------------------------------------------------------------
(* mux, vbus and the rpiboot lines *)
UsbLines == [usb_mux |-> usb_mux, usb_vbus |-> usb_vbus, rpi_boot |-> rpi_boot]

(* the lines as constructed *)
UsbLines0 == [usb_mux |-> 0, usb_vbus |-> 0, rpi_boot |-> [i \in Nodes |-> 0]]

(* the lines after a successful select_usb(c.node, c.mode) run alone from st *)
After(st, c) ==
    [usb_mux |-> mux_values(c.node),
     usb_vbus |-> vbus_values(c.node, c.mode),
     rpi_boot |-> IF c.mode = "Flash"
                  THEN [st.rpi_boot EXCEPT ![NodeIndex(c.node)] = 1]
                  ELSE [i \in Nodes |-> 0]]

(* both calls have returned Ok *)
BothOk ==
    /\ pc = "done" /\ result = "ok"
    /\ other.pc = "done" /\ other.result = "ok"

(* the lines are what one of the two serial orders of the calls leaves *)
SerialOutcome ==
    \/ UsbLines = After(After(UsbLines0, call), other.call)
    \/ UsbLines = After(After(UsbLines0, other.call), call)

(* C16: the controller does no locking: while one select_usb call is between   *)
(* its writes a second caller can enter select_usb, and the writes of the two  *)
(* calls interleave, each line group ending with the value of whichever call   *)
(* wrote it last; a call that ran alone leaves its serial outcome.             *)
C16_NoLocking ==
    /\ (pc \in {"mux", "vbus", "rpi_boot"} /\ other.pc = "idle") =>
          ENABLED other_call_select_usb
    /\ BothOk =>
          /\ usb_mux \in {mux_values(call.node), mux_values(other.call.node)}
          /\ usb_vbus \in {vbus_values(call.node, call.mode),
                           vbus_values(other.call.node, other.call.mode)}
    /\ (pc = "done" /\ result = "ok" /\ other.pc = "idle") =>
          UsbLines = After(UsbLines0, call)

(* the final state of C16: the mux word of the second call's node with the    *)
(* vbus word of the first call, which neither serial order produces           *)
C16_Witness ==
    /\ BothOk
    /\ call.node = "Node1" /\ call.mode = "Host"
    /\ other.call.node = "Node2" /\ other.call.mode = "Host"
    /\ usb_mux = mux_values(other.call.node)
    /\ usb_vbus = vbus_values(call.node, call.mode)
    /\ usb_vbus # vbus_values(other.call.node, other.call.mode)
    /\ ~ SerialOutcome

----------------------------------------------------------------------------
(* C17, as claimed: set_usb_boot(state, mask) writes only the rpiboot lines    *)
(* whose mask bit is set and whose state bit is not 0; a line whose mask bit   *)
(* is set and whose state bit is 0 is not written.                             *)
C17_OnlyNonZeroWritten ==
    call.op = "set_usb_boot" =>
        \A i \in Nodes :
            Issued(i) => Bit(call.nodes_mask, i) = 1 /\ Bit(call.nodes_state, i) # 0

(* C17, amended: set_usb_boot(state, mask) writes only the rpiboot lines whose *)
(* mask bit is set, whatever their state bit; a line whose mask bit is set and *)
(* whose state bit is 0 is written with 0.                                     *)
C17_MaskedWrittenAlsoOff ==
    call.op = "set_usb_boot" =>
        /\ \A i \in Nodes : Issued(i) => Bit(call.nodes_mask, i) = 1
        /\ BootOk =>
              \A i \in Nodes :
                  (Bit(call.nodes_mask, i) = 1 /\ Bit(call.nodes_state, i) = 0) =>
                      /\ \E k \in 1 .. Len(log) : log[k] = Entry("rpi_boot", i, 0, TRUE)
                      /\ rpi_boot[i] = 0

C17_Witness ==
    /\ BootOk
    /\ call.nodes_state = 0
    /\ call.nodes_mask = 10     \* 0b1010
    /\ pre.rpi_boot = [i \in Nodes |-> 1]
    /\ rpi_boot = [i \in Nodes |-> IF i \in {1, 3} THEN 0 ELSE 1]
    /\ Len(log) = 2

----------------------------------------------------------------------------
(* the vbus lines that are at 0 *)
VbusOff == {i \in Nodes : Bit(usb_vbus, i) = 0}

(* the mux word that routes the node of vbus line i *)
MuxOfLine(i) ==
    CASE i = 0 -> 12
      [] i = 1 -> 13
      [] i = 2 -> 3
      [] i = 3 -> 7

(* C18: in every quiescent state of serialized calls in which the most recent  *)
(* select_usb succeeded, at most one vbus line is 0, and when vbus line i is 0 *)
(* the mux holds the word of node i+1.                                         *)
C18_VbusOffOnlyRouted ==
    (pc = "idle" /\ prev.select_ok) =>
        /\ Cardinality(VbusOff) <= 1
        /\ \A i \in VbusOff : usb_mux = MuxOfLine(i)

(* a Host selection of Node3 followed by a direct set_usb_boot *)
C18_Witness ==
    /\ pc = "idle"
    /\ prev.select_ok
    /\ ~ prev.set
    /\ VbusOff = {2}
    /\ usb_mux = 3
    /\ Asserted = {0}

----------------------------------------------------------------------------
(* the switch line and the port-power file say the same route *)
RouteAgree ==
    /\ usb_switch = 0 <=> port_power = "enabled"
    /\ usb_switch = 1 <=> port_power = "disabled"

(* C19: when no set_usb_route call is in flight and the most recent one        *)
(* returned success, the switch and the file agree (0 with "enabled", 1 with   *)
(* "disabled"); every successful call has written both, also when the route    *)
(* asked for is the current one.                                               *)
C19_SwitchFileAgree ==
    /\ (call.op # "set_usb_route" /\ prev.route_ok) => RouteAgree
    /\ RouteOk =>
          /\ RouteAgree
          /\ log = << Entry("usb_switch", 0, switch_value(call.route), TRUE),
                      Entry("port_power", 0, power_payload(call.route), TRUE) >>

(* set_usb_route(Bmc) issued again right after it succeeded *)
C19_Witness ==
    /\ RouteOk
    /\ prev.route_ok
    /\ call.route = "Bmc"
    /\ pre.usb_switch = 1
    /\ pre.port_power = "disabled"
    /\ usb_switch = 1
    /\ port_power = "disabled"
    /\ Len(log) = 2

----------------------------------------------------------------------------
(* C20: each operation writes only its own resources, on success and on       *)
(* failure: select_usb only usb_mux, usb_vbus and rpi_boot; set_usb_boot only  *)
(* rpi_boot; set_usb_route only usb_switch and the port-power file; rtl_reset  *)
(* only the rtl_reset line.                                                    *)
C20_Frame ==
    /\ call.op = "select_usb" =>
          /\ usb_switch = pre.usb_switch
          /\ rtl_reset = pre.rtl_reset
          /\ port_power = pre.port_power
    /\ call.op = "set_usb_boot" =>
          /\ usb_mux = pre.usb_mux
          /\ usb_vbus = pre.usb_vbus
          /\ usb_switch = pre.usb_switch
          /\ rtl_reset = pre.rtl_reset
          /\ port_power = pre.port_power
    /\ call.op = "set_usb_route" =>
          /\ usb_mux = pre.usb_mux
          /\ usb_vbus = pre.usb_vbus
          /\ rpi_boot = pre.rpi_boot
          /\ rtl_reset = pre.rtl_reset
    /\ call.op = "rtl_reset" =>
          /\ usb_mux = pre.usb_mux
          /\ usb_vbus = pre.usb_vbus
          /\ rpi_boot = pre.rpi_boot
          /\ usb_switch = pre.usb_switch
          /\ port_power = pre.port_power
    /\ call.op # "none" =>
          \A k \in 1 .. Len(log) :
              log[k].line \in
                  CASE call.op = "select_usb" -> {"usb_mux", "usb_vbus", "rpi_boot"}
                    [] call.op = "set_usb_boot" -> {"rpi_boot"}
                    [] call.op = "set_usb_route" -> {"usb_switch", "port_power"}
                    [] call.op = "rtl_reset" -> {"rtl_reset", "sleep"}

(* a failed set_usb_route on a controller whose other lines are all set *)
C20_Witness ==
    /\ call.op = "set_usb_route"
    /\ FailedOn("port_power")
    /\ usb_switch = 1
    /\ pre.usb_switch = 0
    /\ usb_mux = 7
    /\ usb_vbus = 7
    /\ Asserted = {1, 2}
    /\ rtl_reset = 1

====
